---- MODULE Spec2Model ----
(***************************************************************************)
(* A model of examples/example.rs: the Person record, the FileProcessor     *)
(* wrapper around file open/read/write, process_arguments and main.         *)
(*                                                                          *)
(* Text is modelled as a sequence of one-unit strings.  An OS string (a     *)
(* Path, an OsStr) may hold the unit "0xFF", a byte that is not valid       *)
(* UTF-8; a Rust String never does, to_string_lossy turns it into "U+FFFD". *)
(***************************************************************************)
EXTENDS Integers, Sequences, FiniteSets, TLC

VARIABLES
    procs,          \* the FileProcessor values: base_path, processed_files
    new_arg,        \* the base_path argument each processor was created with
    fs,             \* the file system: path -> content of the files that exist
    open_handles,   \* the file handles the process holds open
    last,           \* the call that returned last, and what it returned
    ncalls,         \* number of FileProcessor calls made so far
    ok_log,         \* per processor: the filename arguments of its Ok calls
    last_write,     \* per path: the text of the last write_file, if it was Ok
    snapshot,       \* the map the last get_stats call returned to its caller
    person,         \* a Person value
    adult,          \* what is_adult returned for person
    args,           \* the argument vector handed to process_arguments / main
    processed_args, \* what process_arguments returned
    stdout          \* the lines main has printed

vars == <<procs, new_arg, fs, open_handles, last, ncalls, ok_log, last_write,
          snapshot, person, adult, args, processed_args, stdout>>

fpVars == <<procs, new_arg, fs, open_handles, last, ncalls, ok_log, last_write,
            snapshot>>
personVars == <<person, adult>>
argVars == <<args, processed_args>>

\* ------------------------------------------------------------------ bounds
MaxCalls == 3
MaxLen == 2
MaxArgs == 3

\* ------------------------------------------------------------- text, paths
None == [none |-> TRUE]
Some(x) == [some |-> x]

RECURSIVE SeqsUpTo(_, _)
SeqsUpTo(S, n) ==
    IF n = 0 THEN {<<>>}
    ELSE LET shorter == SeqsUpTo(S, n - 1)
         IN  shorter \cup {Append(s, c) : s \in shorter, c \in S}

IsPrefix(s, t) == Len(s) <= Len(t) /\ SubSeq(t, 1, Len(s)) = s

\* Cow<str> of an OsStr: every unit that is not valid UTF-8 becomes U+FFFD.
to_string_lossy(os) ==
    [i \in 1..Len(os) |-> IF os[i] = "0xFF" THEN "U+FFFD" ELSE os[i]]

\* String::from_utf8 succeeds only on valid UTF-8.
valid_utf8(bytes) == \A i \in 1..Len(bytes) : bytes[i] # "0xFF"

\* Path::join: an absolute path replaces the base, otherwise it is appended
\* after a separator.
join(base, path) ==
    IF Len(path) > 0 /\ path[1] = "/" THEN path
    ELSE IF base = <<>> THEN path
    ELSE IF base[Len(base)] = "/" THEN base \o path
    ELSE base \o <<"/">> \o path

RECURSIVE LastSep(_, _)
LastSep(path, i) ==
    IF i = 0 THEN 0 ELSE IF path[i] = "/" THEN i ELSE LastSep(path, i - 1)

\* The directory a path's last component lives in (<<>> is the working directory).
parent(path) ==
    LET i == LastSep(path, Len(path))
    IN  IF i = 0 THEN <<>> ELSE IF i = 1 THEN <<"/">> ELSE SubSeq(path, 1, i - 1)

\* --------------------------------------------------------- the environment
Procs == {"p1"}
\* The directories that exist; "n" and "U+FFFD" do not.
Dirs == {<<>>, <<"/">>, <<"d">>, <<"0xFF">>}
BasePaths == {<<"d">>, <<"n">>, <<"0xFF">>}
FileNames == {<<"a">>, <<"0xFF">>, <<"/", "a">>}
Texts == SeqsUpTo({"x"}, MaxLen) \cup {<<"y">>}
Faults == {"none", "open", "io"}

\* ------------------------------------------------------------------ Person
Person_new(name, age) == [name |-> name, age |-> age, email |-> None]

\* with_email building a fresh record, the name lost.
with_email_fresh(self, email) == [name |-> <<>>, age |-> self.age, email |-> Some(email)]

with_email(self, email) == [self EXCEPT !.email = Some(email)]

AdultAge == 18
\* is_adult with a strict comparison.
is_adult_strict(self) == self.age > AdultAge

is_adult(self) == self.age >= AdultAge

greet(self) ==
    <<"Hello, I'm ", self.name, " and I'm ", ToString(self.age), " years old">>

\* ----------------------------------------------------------- FileProcessor
FileProcessor_new(base_path) ==
    [base_path |-> to_string_lossy(base_path), processed_files |-> <<>>]

\* File::open: the file must exist (NotFound), and the OS may refuse it.
open_error(fsys, file_path, fault) ==
    IF file_path \notin DOMAIN fsys THEN "NotFound"
    ELSE IF fault = "open" THEN "PermissionDenied"
    ELSE "none"

\* File::create: the directory must exist (NotFound), and the OS may refuse it.
create_error(fsys, file_path, fault) ==
    IF parent(file_path) \notin Dirs THEN "NotFound"
    ELSE IF fault = "open" THEN "PermissionDenied"
    ELSE "none"

\* read_to_string: the OS may fail the read, and the bytes must be UTF-8.
read_error(bytes, fault) ==
    IF fault = "io" THEN "Other"
    ELSE IF ~valid_utf8(bytes) THEN "InvalidData"
    ELSE "none"

\* write_all: loops while the buffer is not empty, so an empty buffer cannot fail.
write_error(bytes, fault) ==
    IF fault = "io" /\ Len(bytes) > 0 THEN "Other" ELSE "none"

\* A create that opens an existing file without truncating it.
truncated_keep(fsys, file_path) ==
    [p \in DOMAIN fsys \cup {file_path} |-> IF p \in DOMAIN fsys THEN fsys[p] ELSE <<>>]

\* The file system after File::create: the file exists and is empty.
truncated(fsys, file_path) ==
    [p \in DOMAIN fsys \cup {file_path} |-> IF p = file_path THEN <<>> ELSE fsys[p]]

\* A file's bytes after write_all(bytes) on a handle positioned at its start.
write_all(existing, bytes) ==
    bytes \o SubSeq(existing, Len(bytes) + 1, Len(existing))

\* A handle that is never closed.
drop_leak(handles, h) == handles

\* A File value goes out of scope: its handle is closed.
drop(handles, h) == handles \ {h}

\* A push that skips a name the list holds already.
push_dedup(vec, x) ==
    IF \E i \in 1..Len(vec) : vec[i] = x THEN vec ELSE Append(vec, x)

\* A push at the front of the list.
push_front(vec, x) == <<x>> \o vec

\* Vec::push
push(vec, x) == Append(vec, x)

Returned(op, p, filename, ok, value, err, stage, self, fsys, handles) ==
    [op |-> op, proc |-> p, filename |-> filename, ok |-> ok, value |-> value,
     err |-> err, stage |-> stage, self |-> self, fs |-> fsys, handles |-> handles]

\* read_file(&mut self, filename): what it returns and the state it leaves.
read_file(p, self, fsys, handles, filename, fault) ==
    LET file_path == join(self.base_path, filename)
        e1 == open_error(fsys, file_path, fault)
    IN  IF e1 # "none"
        THEN Returned("read_file", p, filename, FALSE, <<>>, e1, "open",
                      self, fsys, handles)
        ELSE
        LET file == file_path
            held == handles \cup {file}
            e2 == read_error(fsys[file_path], fault)
        IN  IF e2 # "none"
            THEN Returned("read_file", p, filename, FALSE, <<>>, e2, "io",
                          self, fsys, drop(held, file))
            ELSE Returned("read_file", p, filename, TRUE, fsys[file_path], "none", "done",
                          [self EXCEPT !.processed_files =
                               push(@, to_string_lossy(filename))],
                          fsys, drop(held, file))

\* write_file recording the filename before the write, not after it.
write_file_push_first(p, self, fsys, handles, filename, content, fault, written) ==
    LET file_path == join(self.base_path, filename)
        e1 == create_error(fsys, file_path, fault)
        pushed == [self EXCEPT !.processed_files = push(@, to_string_lossy(filename))]
    IN  IF e1 # "none"
        THEN Returned("write_file", p, filename, FALSE, <<>>, e1, "open",
                      self, fsys, handles)
        ELSE
        LET file == file_path
            held == handles \cup {file}
            created == truncated(fsys, file_path)
            e2 == write_error(content, fault)
        IN  IF e2 # "none"
            THEN Returned("write_file", p, filename, FALSE, <<>>, e2, "io", pushed,
                          [created EXCEPT ![file_path] =
                               write_all(@, SubSeq(content, 1, written))],
                          drop(held, file))
            ELSE Returned("write_file", p, filename, TRUE, <<>>, "none", "done", pushed,
                          [created EXCEPT ![file_path] = write_all(@, content)],
                          drop(held, file))

\* write_file(&mut self, filename, content); written is how much of content a
\* failing write_all had put in the file.
write_file(p, self, fsys, handles, filename, content, fault, written) ==
    LET file_path == join(self.base_path, filename)
        e1 == create_error(fsys, file_path, fault)
    IN  IF e1 # "none"
        THEN Returned("write_file", p, filename, FALSE, <<>>, e1, "open",
                      self, fsys, handles)
        ELSE
        LET file == file_path
            held == handles \cup {file}
            created == truncated(fsys, file_path)
            e2 == write_error(content, fault)
        IN  IF e2 # "none"
            THEN Returned("write_file", p, filename, FALSE, <<>>, e2, "io", self,
                          [created EXCEPT ![file_path] =
                               write_all(@, SubSeq(content, 1, written))],
                          drop(held, file))
            ELSE Returned("write_file", p, filename, TRUE, <<>>, "none", "done",
                          [self EXCEPT !.processed_files =
                               push(@, to_string_lossy(filename))],
                          [created EXCEPT ![file_path] = write_all(@, content)],
                          drop(held, file))

\* get_stats without the insert of "files".
get_stats_no_files(self) ==
    [base_path |-> self.base_path,
     processed_files_count |-> Len(self.processed_files)]

\* get_stats counting one entry more than the list holds.
get_stats_count_off(self) ==
    [base_path |-> self.base_path,
     processed_files_count |-> Len(self.processed_files) + 1,
     files |-> [i \in 1..Len(self.processed_files) |-> self.processed_files[i]]]

\* get_stats(&self): the HashMap it builds.
get_stats(self) ==
    [base_path |-> self.base_path,
     processed_files_count |-> Len(self.processed_files),
     files |-> [i \in 1..Len(self.processed_files) |-> self.processed_files[i]]]

\* ------------------------------------------------------- process_arguments
IsWhitespace(c) == c \in {" ", "\t"}

RECURSIVE trim_start(_)
trim_start(s) ==
    IF s # <<>> /\ IsWhitespace(Head(s)) THEN trim_start(Tail(s)) ELSE s

RECURSIVE trim_end(_)
trim_end(s) ==
    IF s # <<>> /\ IsWhitespace(s[Len(s)]) THEN trim_end(SubSeq(s, 1, Len(s) - 1)) ELSE s

\* No trimming: only the empty string counts as blank.
trim_none(s) == s

trim(s) == trim_end(trim_start(s))

is_empty(s) == Len(s) = 0

\* char::to_uppercase: one char may become several.
char_to_uppercase(c) ==
    CASE c = "a" -> <<"A">>
      [] c = "sz" -> <<"S", "S">>
      [] OTHER -> <<c>>

RECURSIVE to_uppercase(_)
to_uppercase(s) ==
    IF s = <<>> THEN <<>> ELSE char_to_uppercase(Head(s)) \o to_uppercase(Tail(s))

\* Iterator::skip(n)
skip(s, n) == IF Len(s) <= n THEN <<>> ELSE SubSeq(s, n + 1, Len(s))

RECURSIVE filter_nonblank(_)
filter_nonblank(s) ==
    IF s = <<>> THEN <<>>
    ELSE IF ~is_empty(trim(Head(s))) THEN <<Head(s)>> \o filter_nonblank(Tail(s))
    ELSE filter_nonblank(Tail(s))

RECURSIVE map_uppercase(_)
map_uppercase(s) ==
    IF s = <<>> THEN <<>> ELSE <<to_uppercase(Head(s))>> \o map_uppercase(Tail(s))

process_arguments(a) == map_uppercase(filter_nonblank(skip(a, 1)))

\* HashMap iteration order: some order of the keys, fixed by the map's random
\* hasher state, which differs from process to process.
iter_orders(map) ==
    {o \in [1..Cardinality(DOMAIN map) -> DOMAIN map] :
        \A i, j \in DOMAIN o : i # j => o[i] # o[j]}

\* serde_json::to_string_pretty of a HashMap: its entries in iteration order.
to_string_pretty(map, order) == [i \in DOMAIN order |-> <<order[i], map[order[i]]>>]

\* main with the process arguments argv; order is the stats map's iteration order.
main(argv, order) ==
    LET alice == with_email(Person_new(<<"Alice Smith">>, 25), <<"alice@example.com">>)
        processor == FileProcessor_new(<<".">>)
        greeting == <<greet(alice), <<"Is adult: ", is_adult(alice)>>>>
        processed == IF Len(argv) > 1
                     THEN <<<<"Processed arguments: ", process_arguments(argv)>>>>
                     ELSE <<>>
        stats == get_stats(processor)
    IN  greeting \o processed
            \o <<<<"Processor stats: ", to_string_pretty(stats, order)>>>>

\* ------------------------------------------------------------ input ranges
Names == {<<"J", "o">>, <<>>}
Emails == {<<"j", "@", "e">>, <<>>}
MaxSmallAge == 19
\* age is a u32; the largest age the checker's integers hold stands for the
\* large ones, which is_adult only compares with 18.
LargeAge == 2147483647
Ages == 0..MaxSmallAge \cup {LargeAge}
ArgStrings == {<<>>, <<" ">>, <<"\t", " ">>, <<"a">>, <<" ", "a", "B">>, <<"sz">>}
ArgVectors == SeqsUpTo(ArgStrings, MaxArgs)

Idle == [op |-> "none"]

\* --------------------------------------------------- FileProcessor actions
\* The files that exist before the program runs: one holding more than any text
\* written here, one holding bytes that are not UTF-8.
InitialFiles ==
    [p \in {<<"d", "/", "a">>, <<"/", "a">>} |->
        IF p = <<"/", "a">> THEN <<"0xFF">> ELSE <<"y", "y", "y", "y">>]

InitFP ==
    /\ new_arg \in [Procs -> BasePaths]
    /\ procs = [p \in Procs |-> FileProcessor_new(new_arg[p])]
    /\ fs = InitialFiles
    /\ open_handles = {}
    /\ last = Idle
    /\ ncalls = 0
    /\ ok_log = [p \in Procs |-> <<>>]
    /\ last_write = <<>>
    /\ snapshot = None

Outcome(r) ==
    [op |-> r.op, proc |-> r.proc, filename |-> r.filename, ok |-> r.ok,
     value |-> r.value, err |-> r.err, stage |-> r.stage]

Forget(f, x) == [y \in DOMAIN f \ {x} |-> f[y]]
Record(f, x, v) == [y \in DOMAIN f \cup {x} |-> IF y = x THEN v ELSE f[y]]

ReadFile ==
    /\ ncalls < MaxCalls
    /\ \E p \in Procs, filename \in FileNames, fault \in Faults :
        LET r == read_file(p, procs[p], fs, open_handles, filename, fault)
        IN  /\ procs' = [procs EXCEPT ![p] = r.self]
            /\ fs' = r.fs
            /\ open_handles' = r.handles
            /\ last' = Outcome(r)
            /\ ok_log' = IF r.ok THEN [ok_log EXCEPT ![p] = Append(@, filename)]
                         ELSE ok_log
    /\ ncalls' = ncalls + 1
    /\ UNCHANGED <<new_arg, last_write, snapshot, personVars, argVars, stdout>>

WrittenChoices(content, fault) ==
    IF fault = "io" /\ Len(content) > 0 THEN 0..(Len(content) - 1) ELSE {0}

WriteFile ==
    /\ ncalls < MaxCalls
    /\ \E p \in Procs, filename \in FileNames, content \in Texts, fault \in Faults :
       \E written \in WrittenChoices(content, fault) :
        LET r == write_file(p, procs[p], fs, open_handles, filename, content,
                            fault, written)
            file_path == join(procs[p].base_path, filename)
        IN  /\ procs' = [procs EXCEPT ![p] = r.self]
            /\ fs' = r.fs
            /\ open_handles' = r.handles
            /\ last' = Outcome(r)
            /\ ok_log' = IF r.ok THEN [ok_log EXCEPT ![p] = Append(@, filename)]
                         ELSE ok_log
            /\ last_write' = IF r.ok THEN Record(last_write, file_path, content)
                             ELSE IF r.stage = "io" THEN Forget(last_write, file_path)
                             ELSE last_write
    /\ ncalls' = ncalls + 1
    /\ UNCHANGED <<new_arg, snapshot, personVars, argVars, stdout>>

GetStats ==
    /\ ncalls < MaxCalls
    /\ \E p \in Procs :
        /\ snapshot' = Some(get_stats(procs[p]))
        /\ last' = [op |-> "get_stats", proc |-> p]
    /\ ncalls' = ncalls + 1
    /\ UNCHANGED <<procs, new_arg, fs, open_handles, ok_log, last_write,
                   personVars, argVars, stdout>>

\* ---------------------------------------------------------- Person actions
InitPerson ==
    /\ \E name \in Names, age \in Ages : person = Person_new(name, age)
    /\ adult = None
    /\ last = Idle

PersonNew ==
    /\ \E name \in Names, age \in Ages :
        /\ person' = Person_new(name, age)
        /\ last' = [op |-> "new", name |-> name, age |-> age]
    /\ adult' = None
    /\ UNCHANGED <<procs, new_arg, fs, open_handles, ncalls, ok_log, last_write,
                   snapshot, argVars, stdout>>

WithEmail ==
    /\ \E email \in Emails :
        /\ person' = with_email(person, email)
        /\ last' = [op |-> "with_email", email |-> email,
                    replaced |-> person.email # None]
    /\ UNCHANGED <<adult, procs, new_arg, fs, open_handles, ncalls, ok_log,
                   last_write, snapshot, argVars, stdout>>

IsAdult ==
    /\ adult' = Some(is_adult(person))
    /\ last' = [op |-> "is_adult"]
    /\ UNCHANGED <<person, procs, new_arg, fs, open_handles, ncalls, ok_log,
                   last_write, snapshot, argVars, stdout>>

\* ------------------------------------------------ process_arguments, main
InitArgs ==
    /\ args \in ArgVectors
    /\ processed_args = None
    /\ stdout = <<>>

ProcessArguments ==
    /\ processed_args = None
    /\ processed_args' = Some(process_arguments(args))
    /\ UNCHANGED <<args, stdout, fpVars, personVars>>

Main ==
    /\ stdout = <<>>
    /\ \E order \in iter_orders(get_stats(FileProcessor_new(<<".">>))) :
        stdout' = main(args, order)
    /\ UNCHANGED <<args, processed_args, fpVars, personVars>>

\* ---------------------------------------------------------- specifications
IdleFP ==
    /\ procs = [p \in Procs |-> FileProcessor_new(<<".">>)]
    /\ new_arg = [p \in Procs |-> <<".">>]
    /\ fs = <<>>
    /\ open_handles = {}
    /\ ncalls = 0
    /\ ok_log = [p \in Procs |-> <<>>]
    /\ last_write = <<>>
    /\ snapshot = None
IdlePerson == person = Person_new(<<>>, 0) /\ adult = None
IdleArgs == args = <<>> /\ processed_args = None /\ stdout = <<>>

\* The FileProcessor operations, called in any order.
Init == InitFP /\ IdlePerson /\ IdleArgs
Next == ReadFile \/ WriteFile \/ GetStats
Spec == Init /\ [][Next]_vars

\* The Person operations, called in any order.
InitP == InitPerson /\ IdleFP /\ IdleArgs
NextP == PersonNew \/ WithEmail \/ IsAdult
SpecPerson == InitP /\ [][NextP]_vars

\* process_arguments and main, on every argument vector.
InitA == InitArgs /\ IdleFP /\ IdlePerson /\ last = Idle
NextA == ProcessArguments \/ Main
SpecArgs == InitA /\ [][NextA]_vars

\* ------------------------------------------------------------------ claims
Called(op) == ncalls' = ncalls + 1 /\ last'.op = op
FileCall == Called("read_file") \/ Called("write_file")
Lossy(names) == [i \in 1..Len(names) |-> to_string_lossy(names[i])]

\* C1 as stated: get_stats reports as many files as calls returned Ok, and as
\* files the filename arguments of exactly those calls, in call order.
StatsListOkArguments ==
    \A p \in Procs :
        /\ get_stats(procs[p]).processed_files_count = Len(ok_log[p])
        /\ get_stats(procs[p]).files = ok_log[p]

\* C1 amended: get_stats reports as many files as calls returned Ok, and as files
\* the lossy UTF-8 text of the filename arguments of exactly those calls (the
\* argument itself when it is valid UTF-8), in call order, repeats kept.
StatsListOkCalls ==
    \A p \in Procs :
        /\ get_stats(procs[p]).processed_files_count = Len(ok_log[p])
        /\ get_stats(procs[p]).files = Lossy(ok_log[p])

\* Two Ok calls with the same filename, then a failing call.
StatsListOkCallsWitness ==
    \E p \in Procs :
        /\ ncalls = 3
        /\ Len(ok_log[p]) = 2
        /\ ok_log[p][1] = ok_log[p][2]
        /\ last.op \in {"read_file", "write_file"} /\ ~last.ok
        /\ get_stats(procs[p]).processed_files_count = 2

\* C2: a read_file or write_file call that returns an error, at the open/create
\* step or at the read/write step, leaves processed_files as it was.
FailedCallKeepsLog ==
    [][(FileCall /\ ~last'.ok) =>
          \A p \in Procs : procs'[p].processed_files = procs[p].processed_files]_vars

\* A write that failed in write_all, after an earlier call had been recorded.
FailedCallKeepsLogWitness ==
    /\ last.op = "write_file" /\ ~last.ok /\ last.stage = "io"
    /\ procs[last.proc].processed_files # <<>>

\* C3 as stated: a read_file of a file whose last write was a successful
\* write_file of T succeeds and returns T.
RoundTripSucceeds ==
    [][\A p \in Procs :
          LET file_path == join(procs[p].base_path, last'.filename)
          IN  (Called("read_file") /\ last'.proc = p /\ file_path \in DOMAIN last_write)
                  => (last'.ok /\ last'.value = last_write[file_path])]_vars

\* C3 amended: a read_file of a file whose last write was a successful
\* write_file of T returns T whenever it does not fail with an I/O error.
RoundTrip ==
    [][\A p \in Procs :
          LET file_path == join(procs[p].base_path, last'.filename)
          IN  (Called("read_file") /\ last'.proc = p /\ file_path \in DOMAIN last_write
                  /\ last'.ok)
                  => last'.value = last_write[file_path]]_vars

\* The empty text read back from a file that held longer content before the write.
RoundTripWitness ==
    /\ last.op = "read_file" /\ last.ok /\ last.value = <<>>
    /\ last.filename = <<"a">>
    /\ procs[last.proc].base_path = <<"d">>
    /\ <<"d", "/", "a">> \in DOMAIN last_write
    /\ last_write[<<"d", "/", "a">>] = <<>>

\* C4: process_arguments returns the uppercase of exactly the elements at index
\* >= 1 (the second on) that are neither empty nor all whitespace, in their
\* order; nothing for an input of length 0 or 1.
Blank(s) == \A i \in 1..Len(s) : s[i] \in {" ", "\t"}
KeptPositions(a) == {i \in 2..Len(a) : ~Blank(a[i])}
ProcessArgumentsContract ==
    processed_args # None =>
        LET out == processed_args.some
            kept == KeptPositions(args)
        IN  /\ Len(out) = Cardinality(kept)
            /\ \A i \in kept :
                   out[Cardinality({j \in kept : j <= i})] = to_uppercase(args[i])
            /\ Len(args) <= 1 => out = <<>>

\* A non-blank first element dropped, a whitespace element dropped, one kept.
ProcessArgumentsWitness ==
    /\ processed_args # None
    /\ Len(args) = 3
    /\ args[1] = <<"a">> /\ args[2] = <<"\t", " ">> /\ args[3] = <<" ", "a", "B">>
    /\ processed_args.some = <<<<" ", "A", "B">>>>

StatsKeys == {"base_path", "files", "processed_files_count"}
SortedKeys == <<"base_path", "files", "processed_files_count">>
Printed == stdout[Len(stdout)][2]

\* C5 as stated: main prints the statistics with the keys in sorted order
\* (base_path, files, processed_files_count) on every run.
MainPrintsSortedKeys ==
    stdout # <<>> => [i \in DOMAIN Printed |-> Printed[i][1]] = SortedKeys

\* C5 amended: main prints the statistics as a rendering that holds each of the
\* keys base_path, files and processed_files_count once, with its value, in an
\* order that is not fixed.
MainPrintsStats ==
    stdout # <<>> =>
        /\ stdout[Len(stdout)][1] = "Processor stats: "
        /\ Len(Printed) = 3
        /\ {Printed[i][1] : i \in DOMAIN Printed} = StatsKeys
        /\ \A i \in DOMAIN Printed :
               Printed[i][2] = CASE Printed[i][1] = "base_path" -> <<".">>
                                 [] Printed[i][1] = "files" -> <<>>
                                 [] OTHER -> 0

\* A run that printed the keys in an order that is not the sorted one.
MainPrintsStatsWitness ==
    /\ stdout # <<>>
    /\ Len(args) > 1
    /\ Printed[1][1] = "processed_files_count"

\* C6: get_stats changes nothing of the processor and returns a map of exactly
\* the keys base_path, processed_files_count and files, with the count the
\* length of processed_files and files its entries in order; a map returned
\* earlier is not changed by a later read_file or write_file.
GetStatsIsSnapshot ==
    [][/\ Called("get_stats") =>
             LET self == procs[last'.proc]
             IN  /\ procs' = procs
                 /\ snapshot' # None
                 /\ DOMAIN snapshot'.some = StatsKeys
                 /\ snapshot'.some.base_path = self.base_path
                 /\ snapshot'.some.processed_files_count = Len(self.processed_files)
                 /\ snapshot'.some.files = self.processed_files
       /\ FileCall => snapshot' = snapshot]_vars

\* A snapshot taken before a later successful write still shows the old count.
GetStatsIsSnapshotWitness ==
    /\ snapshot # None
    /\ last.op = "write_file" /\ last.ok
    /\ snapshot.some.processed_files_count = 1
    /\ Len(procs[last.proc].processed_files) = 2

\* C7: Person::new gives a record without email; with_email gives a record
\* whose email is the given one and whose name and age are the old ones, also
\* when the record had an email already.
WithEmailKeepsNameAge ==
    [][/\ last'.op = "new" =>
             /\ person'.name = last'.name /\ person'.age = last'.age
             /\ person'.email = None
       /\ last'.op = "with_email" =>
             /\ person'.email = Some(last'.email)
             /\ person'.name = person.name /\ person'.age = person.age]_vars

\* An email replaced by another one.
WithEmailKeepsNameAgeWitness ==
    /\ last.op = "with_email" /\ last.replaced
    /\ person.email = Some(<<>>)
    /\ person.name = <<"J", "o">>

\* C8: is_adult is true exactly for ages of 18 and more, whatever the name and
\* the email.
IsAdultFrom18 ==
    adult # None =>
        /\ person.age >= 18 => adult.some = TRUE
        /\ person.age <= 17 => adult.some = FALSE
        /\ \A name \in Names, email \in {None} \cup {Some(e) : e \in Emails} :
               is_adult([name |-> name, age |-> person.age, email |-> email])
                   = adult.some

\* is_adult called on a person of exactly 18.
IsAdultFrom18Witness == adult = Some(TRUE) /\ person.age = 18

\* C9: the file handle read_file or write_file opens is closed when the call
\* returns, on every exit path; between calls no handle is open.
HandlesClosed == open_handles = {}

\* A call that failed after it had acquired the handle.
HandlesClosedWitness ==
    /\ last.op = "read_file" /\ ~last.ok /\ last.stage = "io"
    /\ open_handles = {}

AppendOnlyStep ==
    \A p \in Procs :
        /\ IsPrefix(procs[p].processed_files, procs'[p].processed_files)
        /\ Len(procs'[p].processed_files) <= Len(procs[p].processed_files) + 1
        /\ procs'[p].base_path = procs[p].base_path

\* C10 as stated: processed_files starts empty and only grows, by at most one
\* entry per call, each earlier value a prefix of each later one, and base_path
\* is the value given at creation.
AppendOnlyGivenBase ==
    /\ [](\A p \in Procs : /\ ncalls = 0 => procs[p].processed_files = <<>>
                           /\ procs[p].base_path = new_arg[p])
    /\ [][AppendOnlyStep]_vars

\* C10 amended: processed_files starts empty and only grows, by at most one
\* entry per call, each earlier value a prefix of each later one, and base_path
\* is the lossy UTF-8 text of the value given at creation.
AppendOnly ==
    /\ [](\A p \in Procs : /\ ncalls = 0 => procs[p].processed_files = <<>>
                           /\ procs[p].base_path = to_string_lossy(new_arg[p]))
    /\ [][AppendOnlyStep]_vars

\* Three calls, the log grown by two entries.
AppendOnlyWitness ==
    \E p \in Procs :
        /\ ncalls = 3 /\ Len(procs[p].processed_files) = 2
        /\ last.op = "get_stats"
        /\ procs[p].base_path = new_arg[p]

====
